---- MODULE Spec2Model ----
(***************************************************************************)
(* A model of the saga package: the Saga engine (src/src/package/saga.ts),  *)
(* the WorkflowManager (src/src/package/workflow-manager.ts) and the       *)
(* InMemoryStateRepository (src/src/package/state-repository.ts).          *)
(*                                                                         *)
(* JavaScript runs every handler to its next await, so one action of the   *)
(* model is one such run-to-completion piece: a call of a public method,   *)
(* or the settlement of one promise the engine handed to user code (a step *)
(* action, a step compensate, the global hook) together with everything    *)
(* the engine does until it awaits again.                                  *)
(***************************************************************************)
EXTENDS Integers, Sequences, FiniteSets, TLC

(***************************************************************************)
(* Bounds of the exploration.                                              *)
(***************************************************************************)
\* largest value handed to setStepReruns
MaxReruns == 1
\* configuration calls (skipStep, setStepReruns, ...) explored per behaviour
MaxConfigCalls == 2
\* stages a saga is built up to by addStep / insertStepAt
MaxStages == 3
\* execute calls explored on one Saga instance
MaxRuns == 2
\* The clock stops at this time.
MaxTime == 1
\* runWorkflow calls explored on a registry that is run again and again
MaxWorkflowRuns == 12

(***************************************************************************)
(* Values.                                                                 *)
(***************************************************************************)
\* The Step objects handed to the engine, known by their (here unique) names.
Steps == {"A", "B", "C"}

StepName(s) == s

\* A stage is one Step (par = FALSE, one element) or a Step[] (par = TRUE).
Single(s) == [par |-> FALSE, ss |-> <<s>>]

Parallel(ss) == [par |-> TRUE, ss |-> ss]

\* The stages the callers of the model hand to addStep / insertStepAt.
StagePool == {Single("A"), Parallel(<<"B", "C">>)}

\* Saga objects: the one the caller constructs and the ones clone() returns.
Insts == {"saga", "clone1", "clone2", "clone3"}

\* The functions a caller may register with addGlobalCompensate.
Hooks == {"h1", "h2"}

NoHook == "none"

Keys == {"in", "k", "a", "b"}

\* A key the context does not have.
Absent == <<>>

\* JavaScript's undefined, where an Error is expected.
Undefined == <<"undefined">>

\* The error thrown by the n-th invocation (1-based) of step s's action.
Err(s, n) == <<"action", s, n>>

\* The error thrown by step s's compensate.
CompErr(s) == <<"compensate", s>>

\* The error thrown by the global compensate hook h.
HookErr(h) == <<"hook", h>>

\* The context a caller passes to execute on instance i.
InitialContext(i) ==
    [key \in Keys |-> IF key \in {"in", "k"} THEN <<"init", i>> ELSE Absent]

\* What step s's action resolves with in a run of instance i: a partial
\* context.  All three write the key k; A and B also write a key of their own.
Result(s, i) ==
    CASE s = "A" -> [k |-> <<"A", i>>, a |-> <<"A", i>>]
      [] s = "B" -> [k |-> <<"B", i>>, b |-> <<"B", i>>]
      [] OTHER   -> [k |-> <<s, i>>]

RECURSIVE Reverse(_)
Reverse(q) == IF q = <<>> THEN <<>> ELSE Append(Reverse(Tail(q)), Head(q))

VARIABLES
    stepObj,          \* the Step objects: skip and maxReruns, shared by reference
    alive,            \* the Saga objects constructed so far
    steps,            \* Saga.steps
    completedSteps,   \* Saga.completedSteps
    context,          \* Saga.context
    lastCompensate,   \* Saga.lastCompensate
    runId,            \* Saga.runId
    frame,            \* the execute call in progress on each Saga object
    log,              \* history: what the current execute call invoked, in order
    runs,             \* history: execute calls started on each Saga object
    uuids,            \* crypto.randomUUID values handed out so far
    calls,            \* configuration calls made so far
    registered,       \* history: the hooks handed to addGlobalCompensate
    skipped,          \* history: the steps skipped when the execute call began
    workflowName,     \* Saga.workflowName
    workflows,        \* WorkflowManager.workflows
    calling,          \* the runWorkflow call awaiting each Saga object
    registeredAs,     \* history: the configuration handed to registerWorkflow
    now,              \* the clock new Date() reads
    finished,         \* history: how the runWorkflow calls ended, in order
    refused,          \* history: the registry call that threw at once, if the last one did
    workflowStates,   \* InMemoryStateRepository.workflowStates
    answer            \* history: the last call of the repository and how it settled

sagaVars == <<stepObj, alive, steps, completedSteps, context, lastCompensate,
              runId, frame, log, runs, uuids, calls, registered, skipped,
              workflowName>>

repoVars == <<workflowStates, answer>>

wfVars == <<workflows, calling, registeredAs, now, finished, refused, repoVars>>

vars == <<sagaVars, wfVars>>

(***************************************************************************)
(* Saga: construction.                                                     *)
(***************************************************************************)
\* The execute call of an instance: where it is suspended and its locals.
\*   pc       idle | action (awaiting the stage's actions) | comp (awaiting a
\*            trace entry's compensates) | hook | resolved | rejected
\*   k        index of the stage of the for loop of execute
\*   tasks    one executeStepWithRetry call per active step of the stage
\*   error    the error caught by execute
\*   ci       index of the trace entry of the for loop of compensate
\*   ctasks   one compensate call per step of that entry
IdleFrame ==
    [pc |-> "idle", k |-> 0, tasks |-> <<>>, stepContexts |-> <<>>,
     error |-> Undefined, ci |-> 0, ctasks |-> <<>>,
     returned |-> [key \in Keys |-> Absent], thrown |-> Undefined]

\* A Step object as createStep returns it: skip and maxReruns are undefined.
NewStep == [skip |-> FALSE, maxReruns |-> <<>>]

\* `x || 0` of a maxReruns field: undefined and 0 give 0, any other number itself.
OrZero(x) == IF x = <<>> THEN 0 ELSE x[1]

InFlight(i) == frame[i].pc \in {"action", "comp", "hook"}

\* Some promise the engine handed out for instance i has not settled.
Pending(i) ==
    \/ InFlight(i)
    \/ \E p \in DOMAIN frame[i].tasks : frame[i].tasks[p].st = "run"
    \/ \E p \in DOMAIN frame[i].ctasks : frame[i].ctasks[p] = "run"

(***************************************************************************)
(* Saga: execute and compensate as functions of one instance's state.      *)
(*   m = [context, completedSteps, f, log]: the fields of the instance the *)
(*       call writes, its frame f and the history log                      *)
(*   c = [i, stages, so, hook, run]: what the call only reads: the         *)
(*       instance, its steps array, the Step objects, lastCompensate, and  *)
(*       the number of the execute call                                    *)
(***************************************************************************)
NoCtx == [key \in Keys |-> Absent]

\* A history record: in execute call tag[2] of instance tag[1], for its stage
\* tag[3], the engine invoked ev of s.
Ev(ev, s, tag, n, ctx, err) ==
    [ev |-> ev, s |-> s, tag |-> tag, n |-> n, ctx |-> ctx, err |-> err]

\* Object.assign(context, result)
Assign(ctx, result) ==
    [key \in Keys |-> IF key \in DOMAIN result THEN result[key] ELSE ctx[key]]

\* `result && typeof result === "object"`; a result is <<>> (void) or <<object>>.
IsObject(r) == Len(r) = 1

\* A merge in which the first declared step of a stage wins a colliding key.
RECURSIVE MergeLastFirst(_, _)
MergeLastFirst(ctx, results) ==
    IF results = <<>> THEN ctx
    ELSE LET rest == MergeLastFirst(ctx, Tail(results))
         IN  IF IsObject(Head(results))
             THEN Assign(rest, Head(results)[1]) ELSE rest

\* A stage whose results are dropped.
NoMerge(ctx, results) == ctx

\* results.forEach(result => Object.assign(this.context, result)), in array order
RECURSIVE MergeResults(_, _)
MergeResults(ctx, results) ==
    IF results = <<>> THEN ctx
    ELSE MergeResults(IF IsObject(Head(results))
                        THEN Assign(ctx, Head(results)[1]) ELSE ctx,
                      Tail(results))

\* A loop test that allows one attempt too many.
OneMoreAttempt(attempt, maxReruns) == attempt <= maxReruns + 1

\* The loop test of executeStepWithRetry.
MoreAttempts(attempt, maxReruns) == attempt <= maxReruns

\* executeStepWithRetry up to its first await: the first invocation of the
\* action, or `throw lastError` at once when the loop body is never entered.
NewTask(s, so) ==
    LET max == OrZero(so[s].maxReruns)
    IN  [s |-> s, max |-> max, attempt |-> 0, lastError |-> Undefined,
         result |-> <<>>,
         st |-> IF MoreAttempts(0, max) THEN "run" ELSE "thrown"]

\* step.filter(s => !s.skip) of a Step[], and `if (step.skip) continue` of a Step
ActiveSteps(stage, so) == SelectSeq(stage.ss, LAMBDA s : ~so[s].skip)

\* return this.context
Resolve(m) == [m EXCEPT !.f.pc = "resolved", !.f.returned = m.context]

\* The promise of execute rejects.
Reject(m, err) == [m EXCEPT !.f.pc = "rejected", !.f.thrown = err]

\* A catch block that swallows the error: execute returns the context.
Swallow(m) == Resolve(m)

\* compensate() returned: `throw error`
Rethrow(m) == Reject(m, m.f.error)

\* The finally block of compensate: the hook, if any, is invoked and awaited.
Finally(m, c) ==
    IF c.hook # NoHook
    THEN [m EXCEPT !.f.pc = "hook",
                   !.log = Append(@, Ev("hook", c.hook, <<c.i, c.run, 0>>, 0,
                                        m.context, Undefined))]
    ELSE Rethrow(m)

\* A walk of the trace in the order of completion.
CompletionOrder(cs) == cs

\* The order in which compensate walks the trace: completedSteps.reverse().
CompensationOrder(cs) == Reverse(cs)

\* The history of invoking the compensates of trace entry e, in array order.
CompEvents(e) ==
    [p \in 1..Len(e.step.ss) |->
        Ev("compensate", e.step.ss[p], e.tag, 0, e.context[p], Undefined)]

\* The for loop of compensate from entry ci to its next await.
CompensateFrom(m, c, ci) ==
    IF ci > Len(m.completedSteps)
    THEN Finally(m, c)
    ELSE LET e == m.completedSteps[ci]
         IN  [m EXCEPT !.f.pc = "comp", !.f.ci = ci,
                       !.f.ctasks = [p \in 1..Len(e.step.ss) |-> "run"],
                       !.log = @ \o CompEvents(e)]

\* The catch block of execute: compensate() is entered; reverse() is in place.
Catch(m, c, err) ==
    CompensateFrom([m EXCEPT !.f.error = err,
                             !.completedSteps = CompensationOrder(@)],
                   c, 1)

\* The history of the first invocations of a stage's actions.
ActionEvents(tasks, ctxs, tag) ==
    LET started == SelectSeq([p \in 1..Len(tasks) |-> p],
                             LAMBDA p : tasks[p].st = "run")
    IN  [q \in 1..Len(started) |->
            Ev("action", tasks[started[q]].s, tag, 1, ctxs[started[q]],
               Undefined)]

\* The for loop of execute from stage k to its next await.
RECURSIVE RunFrom(_, _, _)
RunFrom(m, c, k) ==
    IF k > Len(c.stages)
    THEN Resolve([m EXCEPT !.f.k = k])
    ELSE LET active == ActiveSteps(c.stages[k], c.so)
             tasks  == [p \in 1..Len(active) |-> NewTask(active[p], c.so)]
             ctxs   == [p \in 1..Len(active) |-> m.context]
             m1     == [m EXCEPT !.f.pc = "action", !.f.k = k,
                                 !.f.tasks = tasks, !.f.stepContexts = ctxs,
                                 !.log = @ \o ActionEvents(tasks, ctxs,
                                                           <<c.i, c.run, k>>)]
         IN  IF active = <<>>
             THEN RunFrom(m, c, k + 1)
             ELSE IF \E p \in 1..Len(tasks) : tasks[p].st = "thrown"
                  THEN Catch(m1, c, Undefined)
                  ELSE m1

\* A stage recorded with the context after its merge.
RecordedAfterMerge(m, c) ==
    LET k       == m.f.k
        results == [p \in 1..Len(m.f.tasks) |-> m.f.tasks[p].result]
        active  == [p \in 1..Len(m.f.tasks) |-> m.f.tasks[p].s]
        merged  == MergeResults(m.context, results)
        entry   == [step    |-> [par |-> c.stages[k].par, ss |-> active],
                    context |-> [p \in 1..Len(m.f.tasks) |-> merged],
                    tag     |-> <<c.i, c.run, k>>]
    IN  RunFrom([m EXCEPT !.context = merged,
                          !.completedSteps = Append(@, entry),
                          !.log = Append(@, Ev("push", "", <<c.i, c.run, k>>, 0,
                                               NoCtx, Undefined))],
                c, k + 1)

\* The stage's await returned: merge the results, record the stage, loop on.
StageFulfilled(m, c) ==
    LET k       == m.f.k
        results == [p \in 1..Len(m.f.tasks) |-> m.f.tasks[p].result]
        active  == [p \in 1..Len(m.f.tasks) |-> m.f.tasks[p].s]
        entry   == [step    |-> [par |-> c.stages[k].par, ss |-> active],
                    context |-> m.f.stepContexts,
                    tag     |-> <<c.i, c.run, k>>]
    IN  RunFrom([m EXCEPT !.context = MergeResults(@, results),
                          !.completedSteps = Append(@, entry),
                          !.log = Append(@, Ev("push", "", <<c.i, c.run, k>>, 0,
                                               NoCtx, Undefined))],
                c, k + 1)

\* A wrapper that merges what an action returns as soon as it resolves.
MergedAtOnce(m, c, p) ==
    LET t  == m.f.tasks[p]
        m1 == [m EXCEPT !.f.tasks[p].st = "ok",
                        !.f.tasks[p].result = <<Result(t.s, c.i)>>,
                        !.context = Assign(@, Result(t.s, c.i))]
    IN  IF m.f.pc = "action"
           /\ \A q \in 1..Len(m1.f.tasks) : m1.f.tasks[q].st = "ok"
        THEN StageFulfilled(m1, c)
        ELSE m1

\* The action of task p resolved: executeStepWithRetry returns its result.
ActionResolved(m, c, p) ==
    LET t  == m.f.tasks[p]
        m1 == [m EXCEPT !.f.tasks[p].st = "ok",
                        !.f.tasks[p].result = <<Result(t.s, c.i)>>]
    IN  IF m.f.pc = "action"
           /\ \A q \in 1..Len(m1.f.tasks) : m1.f.tasks[q].st = "ok"
        THEN StageFulfilled(m1, c)
        ELSE m1

\* The action of task p rejected: the catch of executeStepWithRetry, then the
\* next invocation, with the same stepContext, or `throw lastError` and with
\* it the stage's rejection.
ActionRejected(m, c, p) ==
    LET t    == m.f.tasks[p]
        err  == Err(t.s, t.attempt + 1)
        more == MoreAttempts(t.attempt + 1, t.max)
        m1   == [m EXCEPT !.f.tasks[p].lastError = err,
                          !.f.tasks[p].attempt = t.attempt + 1,
                          !.f.tasks[p].st = IF more THEN "run" ELSE "thrown"]
        m2   == [m1 EXCEPT !.log = Append(@, Ev("action", t.s,
                                                <<c.i, c.run, m.f.k>>,
                                                t.attempt + 2,
                                                m.f.stepContexts[p],
                                                Undefined))]
    IN  IF more THEN m2
        ELSE IF m.f.pc = "action" THEN Catch(m1, c, err)
        ELSE m1

\* The compensate of step p of the current trace entry resolved.
CompensateResolved(m, c, p) ==
    LET e  == m.completedSteps[m.f.ci]
        m1 == [m EXCEPT !.f.ctasks[p] = "ok"]
    IN  IF m.f.pc = "comp"
           /\ \A q \in 1..Len(m1.f.ctasks) : m1.f.ctasks[q] = "ok"
        THEN CompensateFrom(m1, c, m.f.ci + 1)
        ELSE m1

\* The compensate of step p of the current trace entry rejected: the catch
\* block of compensate logs the error, then the finally block runs.
CompensateRejected(m, c, p) ==
    LET e  == m.completedSteps[m.f.ci]
        m1 == [m EXCEPT !.f.ctasks[p] = "failed"]
    IN  IF m.f.pc = "comp" THEN Finally(m1, c) ELSE m1

\* The hook resolved: compensate() returns and execute rethrows.
HookResolved(m, c) == Rethrow(m)

\* The hook rejected: the rejection leaves the finally block, compensate()
\* and, through `await this.compensate()`, execute.
HookRejected(m, c) == Reject(m, HookErr(c.hook))

\* execute up to its first await.
Begin(m, c, initialContext) ==
    RunFrom([m EXCEPT !.context = initialContext,
                      !.f = IdleFrame,
                      !.log = <<>>],
            c, 1)

(***************************************************************************)
(* Saga: the public methods, as actions on instance i.                     *)
(***************************************************************************)
\* The instance state an execute call writes, and what it reads.
Machine(i) ==
    [context |-> context[i], completedSteps |-> completedSteps[i],
     f |-> frame[i], log |-> log[i]]

Config(i) ==
    [i |-> i, stages |-> steps[i], so |-> stepObj, hook |-> lastCompensate[i],
     run |-> runs[i]]

\* Write back what a piece of execute left.
Store(i, m) ==
    /\ context' = [context EXCEPT ![i] = m.context]
    /\ completedSteps' = [completedSteps EXCEPT ![i] = m.completedSteps]
    /\ frame' = [frame EXCEPT ![i] = m.f]
    /\ log' = [log EXCEPT ![i] = m.log]

\* The configuration methods are called between runs, not during one.
Quiet == \A i \in Insts : ~Pending(i)

Configurable(i) == alive[i] /\ Quiet /\ calls < MaxConfigCalls

\* The Step objects reachable from a steps array.
StepsOf(stages) ==
    UNION {{stages[k].ss[p] : p \in DOMAIN stages[k].ss} : k \in DOMAIN stages}

\* this.steps.push(step)
AddStep(i, stage) ==
    /\ alive[i] /\ Quiet
    /\ Len(steps[i]) < MaxStages
    /\ steps' = [steps EXCEPT ![i] = Append(@, stage)]
    /\ UNCHANGED <<workflowName, wfVars>>
    /\ UNCHANGED <<stepObj, alive, completedSteps, context, lastCompensate,
                   runId, frame, log, runs, uuids, calls, registered, skipped>>

\* this.steps.splice(index, 0, step)
Splice(q, index, x) ==
    SubSeq(q, 1, index) \o <<x>> \o SubSeq(q, index + 1, Len(q))

InsertStepAt(i, stage, index) ==
    /\ Configurable(i)
    /\ Len(steps[i]) < MaxStages
    /\ index \in 0..Len(steps[i])
    /\ steps' = [steps EXCEPT ![i] = Splice(@, index, stage)]
    /\ calls' = calls + 1
    /\ UNCHANGED <<workflowName, wfVars>>
    /\ UNCHANGED <<stepObj, alive, completedSteps, context, lastCompensate,
                   runId, frame, log, runs, uuids,
                   registered, skipped>>

\* The map of removeStep: a Step[] loses the named steps, null when none is
\* left; a Step is null when it has the name.  <<>> stands for null.
RemoveFrom(stage, stepName) ==
    LET filtered == SelectSeq(stage.ss, LAMBDA s : StepName(s) # stepName)
    IN  IF filtered = <<>> THEN <<>> ELSE <<[stage EXCEPT !.ss = filtered]>>

\* .filter(Boolean) after the map
RECURSIVE Removed(_, _)
Removed(stages, stepName) ==
    IF stages = <<>> THEN <<>>
    ELSE RemoveFrom(Head(stages), stepName) \o Removed(Tail(stages), stepName)

RemoveStep(i, stepName) ==
    /\ Configurable(i)
    /\ steps' = [steps EXCEPT ![i] = Removed(@, stepName)]
    /\ calls' = calls + 1
    /\ UNCHANGED <<workflowName, wfVars>>
    /\ UNCHANGED <<stepObj, alive, completedSteps, context, lastCompensate,
                   runId, frame, log, runs, uuids,
                   registered, skipped>>

\* A registration that keeps a hook already registered.
FirstHook(old, compensate) == IF old = NoHook THEN compensate ELSE old

\* The value addGlobalCompensate leaves in lastCompensate.
LastHook(old, compensate) == compensate

\* this.lastCompensate = compensate
AddGlobalCompensate(i, h) ==
    /\ Configurable(i)
    /\ lastCompensate' = [lastCompensate EXCEPT ![i] = LastHook(@, h)]
    /\ registered' = [registered EXCEPT ![i] = Append(@, h)]
    /\ calls' = calls + 1
    /\ UNCHANGED <<workflowName, wfVars>>
    /\ UNCHANGED <<stepObj, alive, steps, completedSteps, context, runId,
                   frame, log, runs, uuids, skipped>>

\* The forEach of skipStep / unskipStep: every Step of this.steps with the
\* name has its own skip field written.
WithSkip(so, stages, stepName, b) ==
    [s \in Steps |->
        IF s \in StepsOf(stages) /\ StepName(s) = stepName
        THEN [so[s] EXCEPT !.skip = b] ELSE so[s]]

SkipStep(i, stepName) ==
    /\ Configurable(i)
    /\ stepObj' = WithSkip(stepObj, steps[i], stepName, TRUE)
    /\ calls' = calls + 1
    /\ UNCHANGED <<workflowName, wfVars>>
    /\ UNCHANGED <<alive, steps, completedSteps, context, lastCompensate,
                   runId, frame, log, runs, uuids,
                   registered, skipped>>

UnskipStep(i, stepName) ==
    /\ Configurable(i)
    /\ stepObj' = WithSkip(stepObj, steps[i], stepName, FALSE)
    /\ calls' = calls + 1
    /\ UNCHANGED <<workflowName, wfVars>>
    /\ UNCHANGED <<alive, steps, completedSteps, context, lastCompensate,
                   runId, frame, log, runs, uuids,
                   registered, skipped>>

\* The forEach of setStepReruns.
WithReruns(so, stages, stepName, maxReruns) ==
    [s \in Steps |->
        IF s \in StepsOf(stages) /\ StepName(s) = stepName
        THEN [so[s] EXCEPT !.maxReruns = <<maxReruns>>] ELSE so[s]]

SetStepReruns(i, stepName, maxReruns) ==
    /\ Configurable(i)
    /\ stepObj' = WithReruns(stepObj, steps[i], stepName, maxReruns)
    /\ calls' = calls + 1
    /\ UNCHANGED <<workflowName, wfVars>>
    /\ UNCHANGED <<alive, steps, completedSteps, context, lastCompensate,
                   runId, frame, log, runs, uuids,
                   registered, skipped>>

\* What clone() gives the new Saga: a copy of the steps array (the Step
\* objects themselves are shared), lastCompensate, and fresh execution state.
ClonedSteps(i) == steps[i]

\* A clone that starts from a copy of the trace of the Saga it is cloned from.
CopiedTrace(i) == completedSteps[i]

ClonedTrace(i) == <<>>

Clone(i, j) ==
    /\ alive[i] /\ ~alive[j]
    /\ alive' = [alive EXCEPT ![j] = TRUE]
    /\ steps' = [steps EXCEPT ![j] = ClonedSteps(i)]
    /\ lastCompensate' = [lastCompensate EXCEPT ![j] = lastCompensate[i]]
    /\ completedSteps' = [completedSteps EXCEPT ![j] = ClonedTrace(i)]
    /\ context' = [context EXCEPT ![j] = NoCtx]
    /\ runId' = [runId EXCEPT ![j] = 0]
    /\ frame' = [frame EXCEPT ![j] = IdleFrame]
    /\ registered' = [registered EXCEPT ![j] = registered[i]]
    /\ workflowName' = [workflowName EXCEPT ![j] = workflowName[i]]
    /\ UNCHANGED wfVars
    /\ UNCHANGED <<stepObj, log, runs, uuids, calls, skipped>>

\* A reset that leaves the trace as it is.
ContextOnly(i) ==
    /\ alive[i] /\ ~Pending(i)
    /\ context' = [context EXCEPT ![i] = NoCtx]
    /\ runId' = [runId EXCEPT ![i] = 0]
    /\ UNCHANGED <<workflowName, wfVars>>
    /\ UNCHANGED <<stepObj, alive, steps, completedSteps, lastCompensate,
                   frame, log, runs, uuids, calls, registered, skipped>>

\* reset(): completedSteps = [], context = {}, runId = ""
Reset(i) ==
    /\ alive[i] /\ ~Pending(i)
    /\ completedSteps' = [completedSteps EXCEPT ![i] = <<>>]
    /\ context' = [context EXCEPT ![i] = NoCtx]
    /\ runId' = [runId EXCEPT ![i] = 0]
    /\ UNCHANGED <<workflowName, wfVars>>
    /\ UNCHANGED <<stepObj, alive, steps, lastCompensate, frame, log, runs,
                   uuids, calls,
                   registered, skipped>>

\* A generator that hands out the same identifier again.
RepeatedUUID == IF uuids = 0 THEN uuids + 1 ELSE uuids

\* crypto.randomUUID(): an identifier never handed out before.
RandomUUID == uuids + 1

\* execute(initialContext) up to its first await.  runId 0 stands for "".
Execute(i) ==
    /\ alive[i] /\ ~Pending(i)
    /\ runs[i] < MaxRuns
    /\ runs' = [runs EXCEPT ![i] = @ + 1]
    /\ uuids' = RandomUUID
    /\ runId' = [runId EXCEPT ![i] = RandomUUID]
    /\ Store(i, Begin(Machine(i), [Config(i) EXCEPT !.run = runs[i] + 1],
                      InitialContext(i)))
    /\ skipped' = [skipped EXCEPT ![i] = {s \in Steps : stepObj[s].skip}]
    /\ UNCHANGED <<workflowName, wfVars>>
    /\ UNCHANGED <<stepObj, alive, steps, lastCompensate, calls,
                   registered>>

(***************************************************************************)
(* The promises the engine awaits settle: user code resolves or rejects.   *)
(***************************************************************************)
Settles(i, m) ==
    /\ Store(i, m)
    /\ UNCHANGED <<workflowName, wfVars>>
    /\ UNCHANGED <<stepObj, alive, steps, lastCompensate, runId, runs, uuids,
                   calls,
                   registered, skipped>>

ActionResolves(i, p) ==
    /\ p \in DOMAIN frame[i].tasks
    /\ frame[i].tasks[p].st = "run"
    /\ Settles(i, ActionResolved(Machine(i), Config(i), p))

ActionRejects(i, p) ==
    /\ p \in DOMAIN frame[i].tasks
    /\ frame[i].tasks[p].st = "run"
    /\ Settles(i, ActionRejected(Machine(i), Config(i), p))

CompensateResolves(i, p) ==
    /\ p \in DOMAIN frame[i].ctasks
    /\ frame[i].ctasks[p] = "run"
    /\ Settles(i, CompensateResolved(Machine(i), Config(i), p))

CompensateRejects(i, p) ==
    /\ p \in DOMAIN frame[i].ctasks
    /\ frame[i].ctasks[p] = "run"
    /\ Settles(i, CompensateRejected(Machine(i), Config(i), p))

HookResolves(i) ==
    /\ frame[i].pc = "hook"
    /\ Settles(i, HookResolved(Machine(i), Config(i)))

HookRejects(i) ==
    /\ frame[i].pc = "hook"
    /\ Settles(i, HookRejected(Machine(i), Config(i)))

\* Any promise of instance i settles.
Settle(i) ==
    \/ \E p \in 1..2 : ActionResolves(i, p)
    \/ \E p \in 1..2 : ActionRejects(i, p)
    \/ \E p \in 1..2 : CompensateResolves(i, p)
    \/ \E p \in 1..2 : CompensateRejects(i, p)
    \/ HookResolves(i)
    \/ HookRejects(i)

(***************************************************************************)
(* WorkflowManager, constructed without a state repository.                *)
(***************************************************************************)
WorkflowNames == {"w", "v"}

\* Map.get of a name that is not registered.
NoDefinition == <<>>

\* No runWorkflow call is awaiting this Saga object.  A call holds the
\* definition it looked up: detached says that this object is no longer the
\* one the registry has under the name.
NoCall == [name |-> "", startTime |-> 0, detached |-> FALSE]

\* The last registry call did not throw at its head.
NoRefusal == [op |-> "", name |-> ""]

\* The run identifiers and step names the callers of the repository use.
RunIds == {"r1", "r2"}

\* Map.get of a run identifier the repository has no state for.
NoState == <<>>

\* No call of the repository has been made.
NoAnswer == [op |-> "", runId |-> "", stepName |-> "", settled |-> "",
             value |-> <<>>, n |-> 0]

\* new InMemoryStateRepository()
NoStates ==
    /\ workflowStates = [r \in RunIds |-> NoState]
    /\ answer = NoAnswer

NoRegistry ==
    /\ NoStates
    /\ workflows = [name \in WorkflowNames |-> NoDefinition]
    /\ calling = [i \in Insts |-> NoCall]
    /\ registeredAs = [name \in WorkflowNames |-> NoDefinition]
    /\ now = 0
    /\ finished = <<>>
    /\ refused = NoRefusal

\* The Saga objects the caller of the registry built and holds.
Held == {"saga"}

\* A Saga object of a finished runWorkflow call: nothing refers to it.
Unreferenced(j) ==
    /\ j \notin Held
    /\ \A name \in WorkflowNames :
           workflows[name] # NoDefinition => workflows[name].saga # j
    /\ calling[j] = NoCall
    /\ ~Pending(j)

\* Room for a new Saga object.
Free(j) == IF alive[j] THEN Unreferenced(j) ELSE TRUE

\* A Saga object never constructed.
Unborn == CHOOSE j \in Insts : ~alive[j]

\* The Saga object a constructor call of the registry gives: which one is
\* immaterial, and the room of a dropped object is taken first.
NewSaga ==
    IF \E j \in Insts : alive[j] /\ Unreferenced(j)
    THEN CHOOSE j \in Insts : alive[j] /\ Unreferenced(j)
    ELSE Unborn

\* The skip and maxReruns settings of the steps of these stages.
Settings(stages) == [s \in StepsOf(stages) |-> stepObj[s]]

\* A registry that takes every name for a new one.
HasNone(name) == FALSE

\* this.workflows.has(name)
HasWorkflow(name) == workflows[name] # NoDefinition

\* A method that empties the registry before it throws.
Forgetful(op, name) ==
    /\ refused' = [op |-> op, name |-> name]
    /\ workflows' = [n \in WorkflowNames |-> NoDefinition]
    /\ UNCHANGED <<sagaVars, calling, registeredAs, now, finished, repoVars>>

\* throw new Error(...) at the head of a registry method: the call ends
\* there and nothing is written.
Refuse(op, name) ==
    /\ refused' = [op |-> op, name |-> name]
    /\ UNCHANGED <<sagaVars, workflows, calling, registeredAs, now, finished,
                   repoVars>>

\* What clone() writes on the new Saga object j.
Cloned(saga, j, name) ==
    /\ alive' = [alive EXCEPT ![j] = TRUE]
    /\ steps' = [steps EXCEPT ![j] = ClonedSteps(saga)]
    /\ lastCompensate' = [lastCompensate EXCEPT ![j] = lastCompensate[saga]]
    /\ completedSteps' = [completedSteps EXCEPT ![j] = ClonedTrace(saga)]
    /\ context' = [context EXCEPT ![j] = NoCtx]
    /\ runId' = [runId EXCEPT ![j] = 0]
    /\ frame' = [frame EXCEPT ![j] = IdleFrame]
    /\ registered' = [registered EXCEPT ![j] = registered[saga]]
    /\ log' = [log EXCEPT ![j] = <<>>]
    /\ skipped' = [skipped EXCEPT ![j] = {}]
    /\ workflowName' = [workflowName EXCEPT ![saga] = name, ![j] = name]

\* registerWorkflow(name, saga): a registered name is refused; otherwise the
\* saga is named and its clone j is stored with an empty execution history.
RegisterWorkflow(name, saga, j) ==
    /\ alive[saga]
    /\ IF HasWorkflow(name)
       THEN Refuse("registerWorkflow", name)
       ELSE /\ Free(j)
            /\ Cloned(saga, j, name)
            /\ workflows' = [workflows EXCEPT ![name] =
                   [name |-> name, saga |-> j, createdAt |-> now,
                    lastExecutedAt |-> <<>>, executionHistory |-> <<>>]]
            /\ registeredAs' = [registeredAs EXCEPT ![name] =
                   [stages |-> steps[saga],
                    settings |-> Settings(steps[saga]),
                    hook |-> lastCompensate[saga],
                    since |-> uuids]]
            /\ refused' = NoRefusal
            /\ UNCHANGED <<stepObj, runs, uuids, calls, calling, now,
                           finished, repoVars>>

\* An update that registers the name anew.
Reregistered(name, saga, j) ==
    /\ alive[saga]
    /\ HasWorkflow(name)
    /\ IF j = workflows[name].saga THEN TRUE ELSE Free(j)
    /\ Cloned(saga, j, name)
    /\ workflows' = [workflows EXCEPT ![name] =
           [name |-> name, saga |-> j, createdAt |-> now,
            lastExecutedAt |-> <<>>, executionHistory |-> <<>>]]
    /\ refused' = NoRefusal
    /\ UNCHANGED <<stepObj, runs, uuids, calls, calling, registeredAs, now,
                   finished, repoVars>>

\* updateWorkflow(name, saga): an unknown name is refused; otherwise the
\* saga is named and its clone replaces definition.saga.  Nothing refers to
\* the Saga object replaced, and the clone j may take its room.
UpdateWorkflow(name, saga, j) ==
    /\ alive[saga]
    /\ IF ~HasWorkflow(name)
       THEN Refuse("updateWorkflow", name)
       ELSE /\ IF j = workflows[name].saga THEN TRUE ELSE Free(j)
            /\ Cloned(saga, j, name)
            /\ workflows' = [workflows EXCEPT ![name].saga = j]
            /\ refused' = NoRefusal
            /\ UNCHANGED <<stepObj, runs, uuids, calls, calling,
                           registeredAs, now, finished, repoVars>>

\* "Keep only last 10 executions"
HistoryLimit == 10

\* A trim that keeps the oldest results.
FirstOf(h) ==
    IF Len(h) > HistoryLimit THEN SubSeq(h, 1, HistoryLimit) ELSE h

\* slice(-HistoryLimit)
LastOf(h) ==
    IF Len(h) > HistoryLimit
    THEN SubSeq(h, Len(h) - HistoryLimit + 1, Len(h))
    ELSE h

\* runWorkflow(name, initialContext) up to its await: an unknown name is
\* refused; otherwise the stored saga is cloned into the Saga object j, the
\* start time is taken and j.execute(initialContext) begins.
RunWorkflow(name, j) ==
    IF ~HasWorkflow(name)
    THEN Refuse("runWorkflow", name)
    ELSE /\ Free(j)
         /\ LET t == workflows[name].saga
                m == [context |-> NoCtx, completedSteps |-> ClonedTrace(t),
                      f |-> IdleFrame, log |-> <<>>]
                c == [i |-> j, stages |-> ClonedSteps(t), so |-> stepObj,
                      hook |-> lastCompensate[t], run |-> runs[j] + 1]
                b == Begin(m, c, InitialContext(j))
            IN  /\ alive' = [alive EXCEPT ![j] = TRUE]
                /\ steps' = [steps EXCEPT ![j] = ClonedSteps(t)]
                /\ lastCompensate' =
                       [lastCompensate EXCEPT ![j] = lastCompensate[t]]
                /\ registered' = [registered EXCEPT ![j] = registered[t]]
                /\ workflowName' =
                       [workflowName EXCEPT ![j] = workflowName[t]]
                /\ Store(j, b)
         /\ runs' = [runs EXCEPT ![j] = @ + 1]
         /\ uuids' = RandomUUID
         /\ runId' = [runId EXCEPT ![j] = RandomUUID]
         /\ skipped' = [skipped EXCEPT ![j] = {s \in Steps : stepObj[s].skip}]
         /\ calling' = [calling EXCEPT ![j] =
                [name |-> name, startTime |-> now, detached |-> FALSE]]
         /\ refused' = NoRefusal
         /\ UNCHANGED <<stepObj, calls, workflows, registeredAs, now,
                        finished, repoVars>>

\* A result that reports success whatever execute did.
AlwaysSuccess(j) ==
    [workflowName |-> calling[j].name, runId |-> runId[j],
     success |-> TRUE, finalContext |-> frame[j].returned,
     error |-> Undefined, executedAt |-> calling[j].startTime]

\* The WorkflowExecutionResult of the settled execute call of j.
ExecutionResult(j) ==
    IF frame[j].pc = "resolved"
    THEN [workflowName |-> calling[j].name, runId |-> runId[j],
          success |-> TRUE, finalContext |-> frame[j].returned,
          error |-> Undefined, executedAt |-> calling[j].startTime]
    ELSE [workflowName |-> calling[j].name, runId |-> runId[j],
          success |-> FALSE, finalContext |-> NoCtx,
          error |-> frame[j].thrown, executedAt |-> calling[j].startTime]

\* How the runWorkflow call of j ends, and how its execute call had ended.
Outcome(j, result) ==
    [name |-> calling[j].name, runId |-> runId[j],
     resolved |-> frame[j].pc = "resolved", thrown |-> frame[j].thrown,
     returns |-> result.success,
     raised |-> IF result.success THEN Undefined ELSE result.error,
     result |-> result]

\* A runWorkflow that looks the definition up again after its await.
WrittenByName(j) ==
    /\ calling[j] # NoCall
    /\ frame[j].pc \in {"resolved", "rejected"}
    /\ LET name == calling[j].name
           definition == workflows[name]
           result == ExecutionResult(j)
       IN  /\ IF definition = NoDefinition
              THEN UNCHANGED workflows
              ELSE workflows' = [workflows EXCEPT ![name] =
                       [definition EXCEPT
                           !.lastExecutedAt = <<calling[j].startTime>>,
                           !.executionHistory =
                               LastOf(Append(definition.executionHistory,
                                             result))]]
           /\ finished' = Append(finished, Outcome(j, result))
    /\ calling' = [calling EXCEPT ![j] = NoCall]
    /\ UNCHANGED <<sagaVars, registeredAs, now, refused, repoVars>>

\* runWorkflow after its await: the result is pushed on the history of the
\* definition the call looked up, the history is trimmed, and the call
\* returns the result or throws its error.  When the name was removed
\* during the await, that definition is an object the registry no longer
\* has, and the registry is not written.
RunWorkflowSettles(j) ==
    /\ calling[j] # NoCall
    /\ frame[j].pc \in {"resolved", "rejected"}
    /\ LET name == calling[j].name
           definition == workflows[name]
           result == ExecutionResult(j)
       IN  /\ IF calling[j].detached
              THEN UNCHANGED workflows
              ELSE workflows' = [workflows EXCEPT ![name] =
                       [definition EXCEPT
                           !.lastExecutedAt = <<calling[j].startTime>>,
                           !.executionHistory =
                               LastOf(Append(definition.executionHistory,
                                             result))]]
           /\ finished' = Append(finished, Outcome(j, result))
    /\ calling' = [calling EXCEPT ![j] = NoCall]
    /\ UNCHANGED <<sagaVars, registeredAs, now, refused, repoVars>>

\* removeWorkflow(name): this.workflows.delete(name).  The runWorkflow calls
\* in flight keep the definition object they looked up.
RemoveWorkflow(name) ==
    /\ workflows' = [workflows EXCEPT ![name] = NoDefinition]
    /\ calling' = [j \in Insts |->
           IF calling[j] # NoCall /\ calling[j].name = name
           THEN [calling[j] EXCEPT !.detached = TRUE] ELSE calling[j]]
    /\ refused' = NoRefusal
    /\ UNCHANGED <<sagaVars, registeredAs, now, finished, repoVars>>

\* Time passes.
Tick ==
    /\ now < MaxTime
    /\ now' = now + 1
    /\ UNCHANGED <<sagaVars, workflows, calling, registeredAs, finished,
                   refused, repoVars>>

\* getWorkflowHistory(name)
GetWorkflowHistory(name) ==
    IF HasWorkflow(name) THEN workflows[name].executionHistory ELSE <<>>

\* A count that takes every result for a success.
Every(history) == Len(history)

\* history.filter(r => r.success).length
Successful(history) == Len(SelectSeq(history, LAMBDA r : r.success))

\* getWorkflowStats(name) of a name that is not registered: undefined.
NoStats == <<>>

\* getWorkflowStats(name)
GetWorkflowStats(name) ==
    IF ~HasWorkflow(name) THEN NoStats
    ELSE LET history == workflows[name].executionHistory
             totalExecutions == Len(history)
             successfulExecutions == Successful(history)
         IN  [totalExecutions |-> totalExecutions,
              successfulExecutions |-> successfulExecutions,
              failedExecutions |-> totalExecutions - successfulExecutions,
              lastExecutedAt |-> workflows[name].lastExecutedAt]

(***************************************************************************)
(* InMemoryStateRepository.  A WorkflowState is known by its runId, status *)
(* and steps; a StepState by its stepName and status.                      *)
(***************************************************************************)
\* repository calls explored per behaviour
MaxRepositoryCalls == 4

WorkflowStatuses == {"running", "completed"}

StepStatuses == {"running", "completed"}

\* The promise of a repository method settles: resolved with a value, or
\* rejected with an Error.
Answers(op, id, stepName, settled, value) ==
    /\ answer.n < MaxRepositoryCalls
    /\ answer' = [op |-> op, runId |-> id, stepName |-> stepName,
                  settled |-> settled, value |-> value, n |-> answer.n + 1]
    /\ UNCHANGED <<sagaVars, workflows, calling, registeredAs, now, finished,
                   refused>>

\* steps.findIndex(s => s.stepName === stepName); 0 stands for -1
FindIndex(stepStates, stepName) ==
    IF \E x \in DOMAIN stepStates : stepStates[x].stepName = stepName
    THEN CHOOSE x \in DOMAIN stepStates :
             /\ stepStates[x].stepName = stepName
             /\ \A y \in 1..(x - 1) : stepStates[y].stepName # stepName
    ELSE 0

\* saveWorkflowState(state)
SaveWorkflowState(id, status) ==
    /\ workflowStates' = [workflowStates EXCEPT ![id] =
           [runId |-> id, status |-> status, steps |-> <<>>]]
    /\ Answers("saveWorkflowState", id, "", "resolved", <<>>)

\* updateWorkflowState(id, updates), the updates being a status
UpdateWorkflowState(id, status) ==
    IF workflowStates[id] = NoState
    THEN /\ UNCHANGED workflowStates
         /\ Answers("updateWorkflowState", id, "", "rejected", <<>>)
    ELSE /\ workflowStates' = [workflowStates EXCEPT ![id].status = status]
         /\ Answers("updateWorkflowState", id, "", "resolved", <<>>)

\* deleteWorkflowState(id): Map.delete, whatever it returns
DeleteWorkflowState(id) ==
    /\ workflowStates' = [workflowStates EXCEPT ![id] = NoState]
    /\ Answers("deleteWorkflowState", id, "", "resolved", <<>>)

\* saveStepState(id, stepState)
SaveStepState(id, stepName, status) ==
    IF workflowStates[id] = NoState
    THEN /\ UNCHANGED workflowStates
         /\ Answers("saveStepState", id, stepName, "rejected", <<>>)
    ELSE LET stepStates == workflowStates[id].steps
             existingIndex == FindIndex(stepStates, stepName)
             stepState == [stepName |-> stepName, status |-> status]
         IN  /\ workflowStates' = [workflowStates EXCEPT ![id].steps =
                    IF existingIndex > 0
                    THEN [stepStates EXCEPT ![existingIndex] = stepState]
                    ELSE Append(stepStates, stepState)]
             /\ Answers("saveStepState", id, stepName, "resolved", <<>>)

\* updateStepState(id, stepName, updates), the updates being a status
UpdateStepState(id, stepName, status) ==
    IF workflowStates[id] = NoState
    THEN /\ UNCHANGED workflowStates
         /\ Answers("updateStepState", id, stepName, "rejected", <<>>)
    ELSE LET stepIndex == FindIndex(workflowStates[id].steps, stepName)
         IN  IF stepIndex = 0
             THEN /\ UNCHANGED workflowStates
                  /\ Answers("updateStepState", id, stepName, "rejected",
                             <<>>)
             ELSE /\ workflowStates' =
                         [workflowStates EXCEPT
                             ![id].steps[stepIndex].status = status]
                  /\ Answers("updateStepState", id, stepName, "resolved",
                             <<>>)

\* getStepState(id, stepName): <<>> stands for null
GetStepState(id, stepName) ==
    /\ UNCHANGED workflowStates
    /\ IF workflowStates[id] = NoState
       THEN Answers("getStepState", id, stepName, "resolved", <<>>)
       ELSE LET stepStates == workflowStates[id].steps
                stepIndex == FindIndex(stepStates, stepName)
            IN  Answers("getStepState", id, stepName, "resolved",
                        IF stepIndex = 0 THEN <<>>
                        ELSE <<stepStates[stepIndex]>>)

(***************************************************************************)
(* Spec: one Saga, constructed, configured and executed once.              *)
(***************************************************************************)
\* The values handed to setStepReruns; the setter takes any number.
RerunValues == (0 - 1)..MaxReruns

Init ==
    /\ stepObj = [s \in Steps |-> NewStep]
    /\ alive = [i \in Insts |-> i = "saga"]
    /\ steps = [i \in Insts |-> <<>>]
    /\ completedSteps = [i \in Insts |-> <<>>]
    /\ context = [i \in Insts |-> NoCtx]
    /\ lastCompensate = [i \in Insts |-> NoHook]
    /\ runId = [i \in Insts |-> 0]
    /\ frame = [i \in Insts |-> IdleFrame]
    /\ log = [i \in Insts |-> <<>>]
    /\ runs = [i \in Insts |-> 0]
    /\ uuids = 0
    /\ calls = 0
    /\ registered = [i \in Insts |-> <<>>]
    /\ skipped = [i \in Insts |-> {}]
    /\ workflowName = [i \in Insts |-> ""]
    /\ NoRegistry

Fresh(i) == runs[i] = 0

Next ==
    \/ \E stage \in StagePool : Fresh("saga") /\ AddStep("saga", stage)
    \/ \E s \in Steps : Fresh("saga") /\ SkipStep("saga", StepName(s))
    \/ \E s \in Steps : Fresh("saga") /\ UnskipStep("saga", StepName(s))
    \/ \E s \in Steps, n \in RerunValues :
          Fresh("saga") /\ SetStepReruns("saga", StepName(s), n)
    \/ \E h \in Hooks : Fresh("saga") /\ AddGlobalCompensate("saga", h)
    \/ Fresh("saga") /\ Execute("saga")
    \/ Settle("saga")

Spec == Init /\ [][Next]_vars

(***************************************************************************)
(* SpecReuse: one Saga, executed again and again, with and without reset,  *)
(* its steps skipped and unskipped between the runs.                       *)
(***************************************************************************)
NextReuse ==
    \/ \E stage \in StagePool : Fresh("saga") /\ AddStep("saga", stage)
    \/ \E s \in Steps : SkipStep("saga", StepName(s))
    \/ \E s \in Steps : UnskipStep("saga", StepName(s))
    \/ \E h \in Hooks : Fresh("saga") /\ AddGlobalCompensate("saga", h)
    \/ Reset("saga")
    \/ Execute("saga")
    \/ Settle("saga")

SpecReuse == Init /\ [][NextReuse]_vars

(***************************************************************************)
(* SpecReset: one Saga reused without cloning: reset() is called before    *)
(* every execute but the first; steps are skipped and unskipped between    *)
(* the runs.                                                               *)
(***************************************************************************)
\* No execute call since the construction or the last reset(): runId is "".
Clean(i) == runId[i] = 0

NextReset ==
    \/ \E stage \in StagePool : Fresh("saga") /\ AddStep("saga", stage)
    \/ \E s \in Steps : SkipStep("saga", StepName(s))
    \/ \E s \in Steps : UnskipStep("saga", StepName(s))
    \/ \E h \in Hooks : Fresh("saga") /\ AddGlobalCompensate("saga", h)
    \/ ~Clean("saga") /\ Reset("saga")
    \/ Clean("saga") /\ Execute("saga")
    \/ Settle("saga")

SpecReset == Init /\ [][NextReset]_vars

(***************************************************************************)
(* SpecRemove: one Saga is built, executed again and again, and steps are  *)
(* removed from it before and between the runs.                            *)
(***************************************************************************)
NextRemove ==
    \/ \E stage \in StagePool : Fresh("saga") /\ AddStep("saga", stage)
    \/ \E h \in Hooks : Fresh("saga") /\ AddGlobalCompensate("saga", h)
    \/ \E s \in Steps : RemoveStep("saga", StepName(s))
    \/ Execute("saga")
    \/ Settle("saga")

SpecRemove == Init /\ [][NextRemove]_vars

(***************************************************************************)
(* SpecRepository: the methods of an InMemoryStateRepository are called    *)
(* with run identifiers and step names it knows and does not know.         *)
(***************************************************************************)
NextRepository ==
    \/ \E r \in RunIds, st \in WorkflowStatuses : SaveWorkflowState(r, st)
    \/ \E r \in RunIds, st \in WorkflowStatuses : UpdateWorkflowState(r, st)
    \/ \E r \in RunIds : DeleteWorkflowState(r)
    \/ \E r \in RunIds, s \in Steps, st \in StepStatuses :
          SaveStepState(r, StepName(s), st)
    \/ \E r \in RunIds, s \in Steps, st \in StepStatuses :
          UpdateStepState(r, StepName(s), st)
    \/ \E r \in RunIds, s \in Steps : GetStepState(r, StepName(s))

SpecRepository == Init /\ [][NextRepository]_vars

(***************************************************************************)
(* SpecClone: a configured Saga and its clones, each executed once, the    *)
(* runs of two of them interleaved.                                        *)
(***************************************************************************)
\* The steps arrays the cloned Saga was built with.
CloneShapes ==
    {<<Single("A"), Parallel(<<"B", "C">>)>>,
     <<Parallel(<<"B", "C">>), Single("A")>>}

\* The saga was built with addStep, with or without addGlobalCompensate.
InitClone ==
    /\ stepObj = [s \in Steps |-> NewStep]
    /\ alive = [i \in Insts |-> i = "saga"]
    /\ steps \in {[i \in Insts |-> IF i = "saga" THEN shape ELSE <<>>] :
                     shape \in CloneShapes}
    /\ completedSteps = [i \in Insts |-> <<>>]
    /\ context = [i \in Insts |-> NoCtx]
    /\ \E h \in {NoHook, "h1"} :
          /\ lastCompensate = [i \in Insts |-> IF i = "saga" THEN h ELSE NoHook]
          /\ registered = [i \in Insts |->
                 IF i = "saga" /\ h # NoHook THEN <<h>> ELSE <<>>]
    /\ runId = [i \in Insts |-> 0]
    /\ frame = [i \in Insts |-> IdleFrame]
    /\ log = [i \in Insts |-> <<>>]
    /\ runs = [i \in Insts |-> 0]
    /\ uuids = 0
    /\ calls = 0
    /\ skipped = [i \in Insts |-> {}]
    /\ workflowName = [i \in Insts |-> ""]
    /\ NoRegistry

\* The instances that have been executed.
Executed == {i \in Insts : runs[i] > 0}

NextClone ==
    \/ \E i \in Insts : (\E j \in Insts : ~alive[j]) /\ Clone(i, Unborn)
    \/ \E i \in Insts :
          Fresh(i) /\ Cardinality(Executed) < 2 /\ Execute(i)
    \/ \E i \in Insts : Settle(i)

SpecClone == InitClone /\ [][NextClone]_vars

(***************************************************************************)
(* SpecRegistry: a Saga is built, registered, reconfigured by its owner    *)
(* and run by name.                                                        *)
(***************************************************************************)
InitRegistry == InitClone

\* The saga is registered and no runWorkflow call has been made yet.
Unrun ==
    /\ \E name \in WorkflowNames : workflows[name] # NoDefinition
    /\ uuids = 0

\* No runWorkflow call is in progress.
Idle == \A j \in Insts : calling[j] = NoCall

\* The owner reconfigures the saga between its registration and the first
\* run; a run starts when all that the run before it started has settled.
NextRegistry ==
    \/ ~HasWorkflow("w") /\ RegisterWorkflow("w", "saga", NewSaga)
    \/ \E stage \in StagePool : Unrun /\ AddStep("saga", stage)
    \/ \E stage \in StagePool, index \in 0..1 :
          Unrun /\ InsertStepAt("saga", stage, index)
    \/ \E s \in Steps : Unrun /\ RemoveStep("saga", s)
    \/ \E s \in Steps : Unrun /\ SkipStep("saga", s)
    \/ \E s \in Steps : Unrun /\ UnskipStep("saga", s)
    \/ \E s \in Steps, n \in RerunValues :
          Unrun /\ SetStepReruns("saga", s, n)
    \/ \E h \in Hooks : Unrun /\ AddGlobalCompensate("saga", h)
    \/ /\ HasWorkflow("w") /\ Idle /\ Quiet /\ uuids < MaxRuns
       /\ RunWorkflow("w", NewSaga)
    \/ \E j \in Insts : Settle(j)
    \/ \E j \in Insts : RunWorkflowSettles(j)

SpecRegistry == InitRegistry /\ [][NextRegistry]_vars

(***************************************************************************)
(* SpecManager: one workflow is registered and run by name; the            *)
(* runWorkflow calls overlap.                                              *)
(***************************************************************************)
\* The saga handed to the registry: A, then B and C together, with a hook.
InitManager ==
    /\ stepObj = [s \in Steps |-> NewStep]
    /\ alive = [i \in Insts |-> i = "saga"]
    /\ steps = [i \in Insts |->
           IF i = "saga" THEN <<Single("A"), Parallel(<<"B", "C">>)>>
           ELSE <<>>]
    /\ completedSteps = [i \in Insts |-> <<>>]
    /\ context = [i \in Insts |-> NoCtx]
    /\ lastCompensate = [i \in Insts |-> IF i = "saga" THEN "h1" ELSE NoHook]
    /\ registered = [i \in Insts |-> IF i = "saga" THEN <<"h1">> ELSE <<>>]
    /\ runId = [i \in Insts |-> 0]
    /\ frame = [i \in Insts |-> IdleFrame]
    /\ log = [i \in Insts |-> <<>>]
    /\ runs = [i \in Insts |-> 0]
    /\ uuids = 0
    /\ calls = 0
    /\ skipped = [i \in Insts |-> {}]
    /\ workflowName = [i \in Insts |-> ""]
    /\ NoRegistry

\* There is room for the Saga object a registry call constructs.
Room == \E j \in Insts : Free(j)

NextManager ==
    \/ ~HasWorkflow("w") /\ RegisterWorkflow("w", "saga", NewSaga)
    \/ /\ HasWorkflow("w") /\ Room /\ uuids < MaxRuns
       /\ RunWorkflow("w", NewSaga)
    \/ \E j \in Insts : Settle(j)
    \/ \E j \in Insts : RunWorkflowSettles(j)

SpecManager == InitManager /\ [][NextManager]_vars

(***************************************************************************)
(* SpecHistory: one workflow of a single step is registered and run again  *)
(* and again, each run resolving or rejecting.                             *)
(***************************************************************************)
InitHistory ==
    /\ stepObj = [s \in Steps |-> NewStep]
    /\ alive = [i \in Insts |-> i = "saga"]
    /\ steps = [i \in Insts |-> IF i = "saga" THEN <<Single("A")>> ELSE <<>>]
    /\ completedSteps = [i \in Insts |-> <<>>]
    /\ context = [i \in Insts |-> NoCtx]
    /\ lastCompensate = [i \in Insts |-> NoHook]
    /\ registered = [i \in Insts |-> <<>>]
    /\ runId = [i \in Insts |-> 0]
    /\ frame = [i \in Insts |-> IdleFrame]
    /\ log = [i \in Insts |-> <<>>]
    /\ runs = [i \in Insts |-> 0]
    /\ uuids = 0
    /\ calls = 0
    /\ skipped = [i \in Insts |-> {}]
    /\ workflowName = [i \in Insts |-> ""]
    /\ NoRegistry

NextHistory ==
    \/ ~HasWorkflow("w") /\ RegisterWorkflow("w", "saga", NewSaga)
    \/ /\ HasWorkflow("w") /\ Idle /\ uuids < MaxWorkflowRuns
       /\ RunWorkflow("w", NewSaga)
    \/ \E j \in Insts : ActionResolves(j, 1)
    \/ \E j \in Insts : ActionRejects(j, 1)
    \/ \E j \in Insts : RunWorkflowSettles(j)

SpecHistory == InitHistory /\ [][NextHistory]_vars

(***************************************************************************)
(* SpecRefusal: the methods of a registry are called with registered and   *)
(* with unregistered names, while time passes; the runs follow one         *)
(* another.                                                                *)
(***************************************************************************)
\* The Saga object updateWorkflow(name, ...) replaces, if there is one.
Replaced(name) ==
    IF HasWorkflow(name) THEN workflows[name].saga ELSE "saga"

NextRefusal ==
    \/ \E name \in WorkflowNames :
          Room /\ RegisterWorkflow(name, "saga", NewSaga)
    \/ \E name \in WorkflowNames :
          UpdateWorkflow(name, "saga", Replaced(name))
    \/ \E name \in WorkflowNames :
          Room /\ Idle /\ uuids < MaxRuns /\ RunWorkflow(name, NewSaga)
    \/ \E j \in Insts : ActionResolves(j, 1)
    \/ \E j \in Insts : ActionRejects(j, 1)
    \/ \E j \in Insts : RunWorkflowSettles(j)
    \/ Tick

SpecRefusal == InitHistory /\ [][NextRefusal]_vars

(***************************************************************************)
(* SpecSettling: a Saga configured in every way is executed once, and      *)
(* every promise the engine awaits settles in the end.                     *)
(***************************************************************************)
\* A Step object after skipStep or setStepReruns, or untouched.
StepSettings ==
    {NewStep, [skip |-> TRUE, maxReruns |-> <<>>]}
        \cup {[skip |-> FALSE, maxReruns |-> <<n>>] : n \in RerunValues}

\* The saga was built with addStep, its steps configured with skipStep and
\* setStepReruns, with or without addGlobalCompensate.
InitSettling ==
    /\ stepObj \in [Steps -> StepSettings]
    /\ alive = [i \in Insts |-> i = "saga"]
    /\ steps \in {[i \in Insts |-> IF i = "saga" THEN shape ELSE <<>>] :
                     shape \in CloneShapes}
    /\ completedSteps = [i \in Insts |-> <<>>]
    /\ context = [i \in Insts |-> NoCtx]
    /\ \E h \in {NoHook, "h1"} :
          /\ lastCompensate = [i \in Insts |-> IF i = "saga" THEN h ELSE NoHook]
          /\ registered = [i \in Insts |->
                 IF i = "saga" /\ h # NoHook THEN <<h>> ELSE <<>>]
    /\ runId = [i \in Insts |-> 0]
    /\ frame = [i \in Insts |-> IdleFrame]
    /\ log = [i \in Insts |-> <<>>]
    /\ runs = [i \in Insts |-> 0]
    /\ uuids = 0
    /\ calls = 0
    /\ skipped = [i \in Insts |-> {}]
    /\ workflowName = [i \in Insts |-> ""]
    /\ NoRegistry

NextSettling ==
    \/ Fresh("saga") /\ Execute("saga")
    \/ Settle("saga")

\* User code settles every promise it handed out: the settlement of a
\* promise of the saga is not put off for ever.
Settling == WF_vars(Settle("saga"))

SpecSettling == InitSettling /\ [][NextSettling]_vars /\ Settling

(***************************************************************************)
(* SpecUpdate: a workflow is registered, its owner adds a stage to the     *)
(* saga and hands it to updateWorkflow, before, between and during runs    *)
(* of the workflow; the runs overlap and time passes.                      *)
(***************************************************************************)
NextUpdate ==
    \/ ~HasWorkflow("w") /\ RegisterWorkflow("w", "saga", NewSaga)
    \/ /\ HasWorkflow("w") /\ Len(steps["saga"]) < 2
       /\ AddStep("saga", Parallel(<<"B", "C">>))
    \/ HasWorkflow("w") /\ UpdateWorkflow("w", "saga", Replaced("w"))
    \/ /\ HasWorkflow("w") /\ Room /\ uuids < MaxRuns
       /\ RunWorkflow("w", NewSaga)
    \/ \E j \in Insts, p \in 1..2 : ActionResolves(j, p)
    \/ \E j \in Insts, p \in 1..2 : ActionRejects(j, p)
    \/ \E j \in Insts, p \in 1..2 : CompensateResolves(j, p)
    \/ \E j \in Insts, p \in 1..2 : CompensateRejects(j, p)
    \/ \E j \in Insts : RunWorkflowSettles(j)
    \/ Tick

SpecUpdate == InitHistory /\ [][NextUpdate]_vars

(***************************************************************************)
(* SpecRemoval: a workflow is registered, removed and registered again     *)
(* while runs of it are in flight.                                         *)
(***************************************************************************)
NextRemoval ==
    \/ ~HasWorkflow("w") /\ Room /\ RegisterWorkflow("w", "saga", NewSaga)
    \/ HasWorkflow("w") /\ RemoveWorkflow("w")
    \/ /\ HasWorkflow("w") /\ Room /\ uuids < MaxRuns
       /\ RunWorkflow("w", NewSaga)
    \/ \E j \in Insts : ActionResolves(j, 1)
    \/ \E j \in Insts : ActionRejects(j, 1)
    \/ \E j \in Insts : RunWorkflowSettles(j)
    \/ Tick

SpecRemoval == InitHistory /\ [][NextRemoval]_vars

(***************************************************************************)
(* What the history says of the current execute call of instance i.        *)
(***************************************************************************)
Pushes(i) == SelectSeq(log[i], LAMBDA e : e.ev = "push")

Comps(i) == SelectSeq(log[i], LAMBDA e : e.ev = "compensate")

HookCalls(i) == SelectSeq(log[i], LAMBDA e : e.ev = "hook")

Thrown(i) == {p \in DOMAIN frame[i].tasks : frame[i].tasks[p].st = "thrown"}

\* A sequence without its repetitions of the element before.
RECURSIVE Collapse(_)
Collapse(q) ==
    IF Len(q) <= 1 THEN q
    ELSE IF q[1] = q[2] THEN Collapse(Tail(q))
    ELSE <<q[1]>> \o Collapse(Tail(q))

\* The stages compensated, in the order their compensation started.
CompensatedStages(i) == Collapse([x \in 1..Len(Comps(i)) |-> Comps(i)[x].tag])

\* Every step of every entry of the trace has had its compensate invoked.
TraceCompensated(i) ==
    \A x \in 1..Len(completedSteps[i]) :
        \A p \in 1..Len(completedSteps[i][x].step.ss) :
            \E y \in 1..Len(Comps(i)) :
                /\ Comps(i)[y].tag = completedSteps[i][x].tag
                /\ Comps(i)[y].s = completedSteps[i][x].step.ss[p]

\* The steps of a stage list, in declaration order.
RECURSIVE Flatten(_)
Flatten(stages) ==
    IF stages = <<>> THEN <<>> ELSE Head(stages).ss \o Flatten(Tail(stages))

\* The key-by-key overlay of the results of the steps ss, in order, on ctx.
RECURSIVE SequentialMerge(_, _, _)
SequentialMerge(ctx, ss, i) ==
    IF ss = <<>> THEN ctx
    ELSE SequentialMerge(Assign(ctx, Result(Head(ss), i)), Tail(ss), i)

(***************************************************************************)
(* Claims.                                                                 *)
(***************************************************************************)
\* No step of the saga has a negative retry budget.
Budgeted(i) ==
    \A s \in StepsOf(steps[i]) : OrZero(stepObj[s].maxReruns) >= 0

\* C1: whenever execute rejects, it rejects with the error execute caught,
\* which is the last error of a step whose retry budget was exhausted; also
\* when a compensate or the global hook throws.  (Stated for sagas whose
\* steps all have a budget of at least one attempt.)
C1_RejectsWithTriggeringError ==
    \A i \in Insts :
        (frame[i].pc = "rejected" /\ Budgeted(i)) =>
            /\ frame[i].thrown = frame[i].error
            /\ \E p \in Thrown(i) :
                  frame[i].tasks[p].lastError = frame[i].thrown

\* C2: in the first run of an instance a compensate is invoked only for a
\* step of a stage the run recorded in the trace, at most once per step of a
\* stage, and the stages are compensated in the reverse of the order in which
\* they completed.
C2_CompensationFollowsTrace ==
    \A i \in Insts :
        runs[i] = 1 =>
            LET ps == Pushes(i)
                cs == Comps(i)
                st == CompensatedStages(i)
            IN  /\ Len(st) <= Len(ps)
                /\ \A j \in 1..Len(st) : st[j] = ps[Len(ps) - j + 1].tag
                /\ \A x, y \in 1..Len(cs) :
                      (cs[x].tag = cs[y].tag /\ cs[x].s = cs[y].s) => x = y
                /\ \A x \in 1..Len(cs) :
                      /\ cs[x].s \in StepsOf(<<steps[i][cs[x].tag[3]]>>)
                      /\ ~stepObj[cs[x].s].skip

\* A failed first run that has compensated two stages.
C2_Witness ==
    /\ frame["saga"].pc = "rejected"
    /\ runs["saga"] = 1
    /\ Len(CompensatedStages("saga")) >= 2

\* C3: in every failed run every step recorded in the trace has its
\* compensate invoked, whichever compensate functions fail.  (Stated for
\* first runs of sagas whose steps all have a budget of at least one attempt.)
C3_EveryTraceEntryCompensated ==
    \A i \in Insts :
        (frame[i].pc = "rejected" /\ runs[i] = 1 /\ Budgeted(i)) =>
            TraceCompensated(i)

\* C4: a registered hook is invoked exactly once in a run that fails, it is
\* the hook registered last, and no hook is invoked in a run that resolves.
C4_HookOncePerFailedRun ==
    \A i \in Insts :
        /\ Len(HookCalls(i)) <= 1
        /\ frame[i].pc = "resolved" => HookCalls(i) = <<>>
        /\ (frame[i].pc = "rejected" /\ registered[i] # <<>>) =>
              /\ Len(HookCalls(i)) = 1
              /\ HookCalls(i)[1].s = registered[i][Len(registered[i])]

\* A failed run of a saga on which a second hook replaced a first, and in
\* which a compensate was invoked.
C4_Witness ==
    /\ frame["saga"].pc = "rejected"
    /\ Len(registered["saga"]) = 2
    /\ registered["saga"][1] # registered["saga"][2]
    /\ Comps("saga") # <<>>
    /\ HookCalls("saga") # <<>>

\* C5: when the hook is invoked, every entry of the trace has had its
\* compensates invoked and every compensate invoked has settled.  (Stated
\* for first runs of sagas whose steps all have a budget of at least one
\* attempt.)
C5_HookAfterAllCompensation ==
    \A i \in Insts :
        (frame[i].pc = "hook" /\ runs[i] = 1 /\ Budgeted(i)) =>
            /\ TraceCompensated(i)
            /\ \A p \in DOMAIN frame[i].ctasks : frame[i].ctasks[p] # "run"

\* The events of the current execute call of instance i that are about s.
Invoked(i, ev, s) ==
    \E x \in 1..Len(log[i]) : log[i][x].ev = ev /\ log[i][x].s = s

\* C6: a step that was skipped when a run began has in that run neither its
\* action nor its compensate invoked, and the run records no stage with it.
C6_SkippedStepUntouched ==
    \A i \in Insts :
        \A s \in skipped[i] :
            /\ ~Invoked(i, "action", s)
            /\ ~Invoked(i, "compensate", s)
            /\ \A x \in 1..Len(completedSteps[i]) :
                  completedSteps[i][x].tag[2] = runs[i] =>
                      s \notin StepsOf(<<completedSteps[i][x].step>>)

\* The invocations of its action a task has made.
Invocations(t) == IF t.st = "thrown" THEN t.attempt ELSE t.attempt + 1

\* The budget of every task is the maxReruns of its step, no task exceeds
\* n + 1 invocations, and a task that gave up made n + 1 of them and throws
\* the error of the last.
WithinBudget(i) ==
    \A p \in DOMAIN frame[i].tasks :
        LET t == frame[i].tasks[p]
        IN  /\ t.max = OrZero(stepObj[t.s].maxReruns)
            /\ t.max >= 0 =>
                  /\ Invocations(t) <= t.max + 1
                  /\ t.st = "thrown" =>
                        /\ t.attempt = t.max + 1
                        /\ t.lastError = Err(t.s, t.max + 1)

\* The error execute caught is the error thrown by a task that gave up.
CaughtIsThrown(i) ==
    frame[i].pc \in {"comp", "hook", "rejected"} =>
        \E p \in Thrown(i) : frame[i].error = frame[i].tasks[p].lastError

\* In a step of the same execute call: a task that succeeded makes no other
\* attempt while its stage is awaited, and a stage that is recorded merges
\* what its steps return on a first attempt, however many attempts they made.
AfterSuccess(i) ==
    /\ \A p \in DOMAIN frame[i].tasks :
          (/\ frame[i].tasks[p].st = "ok"
           /\ runs'[i] = runs[i]
           /\ frame'[i].k = frame[i].k
           /\ frame'[i].pc = frame[i].pc) =>
              frame'[i].tasks[p] = frame[i].tasks[p]
    /\ (runs'[i] = runs[i] /\ Len(Pushes(i)') = Len(Pushes(i)) + 1) =>
          context'[i] =
              SequentialMerge(context[i],
                              [p \in 1..Len(frame[i].tasks) |->
                                  frame[i].tasks[p].s], i)

C8_FinalContextIsSequentialMerge ==
    \A i \in Insts :
        (/\ frame[i].pc = "resolved"
         /\ \A s \in StepsOf(steps[i]) : ~stepObj[s].skip) =>
            /\ frame[i].returned =
                  SequentialMerge(InitialContext(i), Flatten(steps[i]), i)
            /\ context[i] = frame[i].returned

\* A resolved run of a stage, then a parallel stage whose steps collide, of
\* which a step was retried.
C8_Witness ==
    /\ frame["saga"].pc = "resolved"
    /\ steps["saga"] = <<Single("A"), Parallel(<<"B", "C">>)>>
    /\ \A s \in Steps : ~stepObj[s].skip
    /\ frame["saga"].tasks[1].attempt = 1
    /\ frame["saga"].returned["k"] = <<"C", "saga">>
    /\ frame["saga"].returned["a"] = <<"A", "saga">>

\* Every value of a context was put there by instance i: it is of the
\* initial context of its run or the result of one of its steps.
OwnContext(ctx, i) ==
    \A key \in Keys : ctx[key] # Absent => ctx[key][2] = i

\* The steps of a stage list that are not skipped, in declaration order.
ActiveOf(stages) == SelectSeq(Flatten(stages), LAMBDA s : ~stepObj[s].skip)

\* C9: the execution state of a Saga and of its clones is independent.  Of
\* instances executed once, in any interleaving: the trace of each holds only
\* stages its own run completed, a failure compensates only those, with the
\* snapshots its own run took, the context it returns is the merge of its own
\* initial context with its own steps' results, and the run identities differ.
C9_CloneIsIndependent ==
    \A i \in Insts :
        /\ \A x \in 1..Len(completedSteps[i]) :
              /\ completedSteps[i][x].tag[1] = i
              /\ \A p \in 1..Len(completedSteps[i][x].context) :
                    OwnContext(completedSteps[i][x].context[p], i)
        /\ \A x \in 1..Len(Comps(i)) :
              /\ Comps(i)[x].tag[1] = i
              /\ \E y \in 1..Len(Pushes(i)) : Pushes(i)[y].tag = Comps(i)[x].tag
              /\ OwnContext(Comps(i)[x].ctx, i)
        /\ OwnContext(context[i], i)
        /\ frame[i].pc = "resolved" =>
              frame[i].returned =
                  SequentialMerge(InitialContext(i), ActiveOf(steps[i]), i)
        /\ \A j \in Insts :
              (i # j /\ runs[i] > 0 /\ runs[j] > 0) => runId[i] # runId[j]

\* A clone made while the run of the original had completed a stage
\* compensates its own first stage while the original is still running.
C9_Witness ==
    /\ frame["saga"].pc = "action"
    /\ completedSteps["saga"] # <<>>
    /\ frame["clone1"].pc = "comp"
    /\ Comps("clone1") # <<>>

(***************************************************************************)
(* C10: after registerWorkflow(name, saga) has returned, the configuration *)
(* methods of the saga handed in do not change what is stored: every       *)
(* runWorkflow(name) call runs the stages the saga had at registration,    *)
(* with the skip and maxReruns settings their steps had at registration.   *)
(***************************************************************************)
C10_RunsAsRegistered ==
    \A j \in Insts :
        calling[j] # NoCall =>
            LET r == registeredAs[calling[j].name]
            IN  /\ steps[j] = r.stages
                /\ \A s \in StepsOf(r.stages) :
                       /\ (s \in skipped[j]) = r.settings[s].skip
                       /\ stepObj[s].maxReruns = r.settings[s].maxReruns

(***************************************************************************)
(* C11: the execution history of a workflow holds at most 10 results, and  *)
(* they are the results recorded last, in the order they were recorded:    *)
(* after 12 completed executions the 3rd to the 12th remain.               *)
(***************************************************************************)
\* The results of the finished runWorkflow(name) calls, in order.
Recorded(name) ==
    LET f == SelectSeq(finished, LAMBDA o : o.name = name)
    IN  [n \in 1..Len(f) |-> f[n].result]

C11_HistoryIsLastTen ==
    \A name \in WorkflowNames :
        LET h == GetWorkflowHistory(name)
            r == Recorded(name)
        IN  /\ Len(h) <= 10
            /\ Len(h) <= Len(r)
            /\ Len(r) <= 10 => h = r
            /\ Len(r) > 10 => h = SubSeq(r, Len(r) - 9, Len(r))
            /\ Len(r) = 12 => h = SubSeq(r, 3, 12)

\* Twelve executions are completed, some resolved and some rejected.
C11_Witness ==
    /\ Len(Recorded("w")) = 12
    /\ \E n, m \in 1..12 :
          Recorded("w")[n].success /\ ~Recorded("w")[m].success

(***************************************************************************)
(* C12: registerWorkflow with a name that is registered throws and leaves  *)
(* the registry as it was: the stored template, createdAt, lastExecutedAt  *)
(* and the execution history of every definition, and the set of names.    *)
(***************************************************************************)
\* The template, the dates and the history kept under a name.
Registration(name) ==
    IF workflows[name] = NoDefinition THEN NoDefinition
    ELSE [definition |-> workflows[name],
          stages |-> steps[workflows[name].saga],
          settings |-> Settings(steps[workflows[name].saga]),
          hook |-> lastCompensate[workflows[name].saga]]

C12_DuplicateRegistrationRefused ==
    [][\A name \in WorkflowNames :
          (/\ workflows[name] # NoDefinition
           /\ \E j \in Insts : RegisterWorkflow(name, "saga", j))
          => /\ refused' = [op |-> "registerWorkflow", name |-> name]
             /\ \A n \in WorkflowNames : Registration(n)' = Registration(n)
             /\ UNCHANGED <<sagaVars, calling, finished>>]_vars

\* A registration of a name that has been run was refused.
C12_Witness ==
    /\ refused = [op |-> "registerWorkflow", name |-> "w"]
    /\ workflows["w"] # NoDefinition
    /\ workflows["w"].executionHistory # <<>>
    /\ workflows["w"].createdAt < now

(***************************************************************************)
(* C13: runWorkflow and updateWorkflow with a name that is not registered  *)
(* throw at once: no step action is invoked, no history entry is written   *)
(* for any workflow, and the registered workflows and their definitions    *)
(* are as before.                                                          *)
(***************************************************************************)
C13_UnknownNameRefused ==
    [][\A name \in WorkflowNames :
          /\ (/\ workflows[name] = NoDefinition
              /\ \E j \in Insts : RunWorkflow(name, j))
             => /\ refused' = [op |-> "runWorkflow", name |-> name]
                /\ workflows' = workflows
                /\ UNCHANGED <<sagaVars, calling, finished>>
          /\ (/\ workflows[name] = NoDefinition
              /\ \E j \in Insts : UpdateWorkflow(name, "saga", j))
             => /\ refused' = [op |-> "updateWorkflow", name |-> name]
                /\ workflows' = workflows
                /\ UNCHANGED <<sagaVars, calling, finished>>]_vars

\* A call with an unregistered name was refused while another workflow was
\* registered and had been run.
C13_Witness ==
    /\ refused.op \in {"runWorkflow", "updateWorkflow"}
    /\ refused.name = "v"
    /\ workflows["v"] = NoDefinition
    /\ workflows["w"] # NoDefinition
    /\ workflows["w"].executionHistory # <<>>

(***************************************************************************)
(* C14: a runWorkflow call on a registered name has recorded exactly one   *)
(* result in the history of the workflow when it returns or throws, and    *)
(* none before: the entry carries the runId of the run, success is true    *)
(* iff execute resolved, and on failure the error of the entry is the      *)
(* error execute rejected with and the one runWorkflow throws.             *)
(***************************************************************************)
\* The places of the history of name that hold a result of this run.
EntriesOf(name, id) ==
    {m \in DOMAIN GetWorkflowHistory(name) :
        GetWorkflowHistory(name)[m].runId = id}

C14_OneResultPerCall ==
    /\ \A n \in DOMAIN finished :
          LET o == finished[n]
              h == GetWorkflowHistory(o.name)
          IN  /\ Cardinality(EntriesOf(o.name, o.runId)) = 1
              /\ \A m \in EntriesOf(o.name, o.runId) :
                    /\ h[m].success = o.resolved
                    /\ o.returns = o.resolved
                    /\ ~o.resolved =>
                          /\ h[m].error = o.thrown
                          /\ o.raised = h[m].error
    /\ \A j \in Insts :
          calling[j] # NoCall => EntriesOf(calling[j].name, runId[j]) = {}

\* A call has thrown and a call has returned.
C14_Witness ==
    /\ \E n \in DOMAIN finished : finished[n].returns
    /\ \E n \in DOMAIN finished :
          ~finished[n].returns /\ finished[n].raised # Undefined

(***************************************************************************)
(* C15: runWorkflow calls on one name that overlap get run identifiers     *)
(* that differ, and once all of them have finished the result of each is   *)
(* in the history of the workflow: none is lost or overwritten.            *)
(***************************************************************************)
\* The run identifiers of the calls in progress.
InProgress == {runId[j] : j \in {i \in Insts : calling[i] # NoCall}}

C15_OverlappingRunsAllRecorded ==
    /\ \A n, m \in DOMAIN finished :
          n # m => finished[n].runId # finished[m].runId
    /\ \A n \in DOMAIN finished : finished[n].runId \notin InProgress
    /\ \A i, j \in Insts :
          (i # j /\ calling[i] # NoCall /\ calling[j] # NoCall)
             => runId[i] # runId[j]
    /\ Idle =>
          \A n \in DOMAIN finished :
              \E m \in DOMAIN GetWorkflowHistory(finished[n].name) :
                  GetWorkflowHistory(finished[n].name)[m] = finished[n].result

\* Two calls overlapped: the one that started second finished first.
C15_Witness ==
    /\ Idle
    /\ Len(finished) >= 2
    /\ finished[1].runId > finished[2].runId

(***************************************************************************)
(* C16: the statistics of a registered workflow are those of its retained  *)
(* history: totalExecutions is its length, at most 10,                     *)
(* successfulExecutions the number of its entries with success = true,     *)
(* and successfulExecutions + failedExecutions = totalExecutions; a name   *)
(* that is not registered has no statistics.                               *)
(***************************************************************************)
C16_StatsFollowHistory ==
    \A name \in WorkflowNames :
        LET stats == GetWorkflowStats(name)
            h == GetWorkflowHistory(name)
        IN  IF workflows[name] = NoDefinition
            THEN stats = NoStats
            ELSE /\ stats.totalExecutions = Len(h)
                 /\ stats.totalExecutions <= 10
                 /\ stats.successfulExecutions =
                        Cardinality({m \in DOMAIN h : h[m].success})
                 /\ stats.successfulExecutions + stats.failedExecutions =
                        stats.totalExecutions

\* The history is full, results have been evicted, and both successes and
\* failures are retained.
C16_Witness ==
    /\ workflows["w"] # NoDefinition
    /\ workflows["v"] = NoDefinition
    /\ Len(finished) > 10
    /\ GetWorkflowStats("w").totalExecutions = 10
    /\ GetWorkflowStats("w").successfulExecutions > 0
    /\ GetWorkflowStats("w").failedExecutions > 0

(***************************************************************************)
(* C17: when every promise settles, an execute call ends, and in one of    *)
(* two ways that then stands.  It resolves when every stage that had a     *)
(* step not skipped was recorded, in order, and nothing was compensated;   *)
(* it rejects when a stage failed and compensate() has run: the walk of    *)
(* the trace reached its end or the compensate that rejected, and the      *)
(* hook, if registered, was invoked.                                       *)
(***************************************************************************)
\* The stages of instance i with a step that was not skipped when the run
\* began, in order.
StagesToRun(i) ==
    SelectSeq([k \in 1..Len(steps[i]) |-> k],
              LAMBDA k : \E p \in DOMAIN steps[i][k].ss :
                             steps[i][k].ss[p] \notin skipped[i])

Ended(i) == frame[i].pc \in {"resolved", "rejected"}

ResolvedAfterAllStages(i) ==
    /\ [x \in 1..Len(Pushes(i)) |-> Pushes(i)[x].tag[3]] = StagesToRun(i)
    /\ Comps(i) = <<>>
    /\ HookCalls(i) = <<>>
    /\ Thrown(i) = {}

RejectedAfterCompensation(i) ==
    /\ Thrown(i) # {}
    /\ frame[i].k \in DOMAIN steps[i]
    /\ \A x \in 1..Len(Pushes(i)) : Pushes(i)[x].tag[3] < frame[i].k
    /\ \/ /\ TraceCompensated(i)
          /\ \A p \in DOMAIN frame[i].ctasks : frame[i].ctasks[p] = "ok"
       \/ \E p \in DOMAIN frame[i].ctasks : frame[i].ctasks[p] = "failed"
    /\ lastCompensate[i] # NoHook => Len(HookCalls(i)) = 1

C17_ExecuteTerminates ==
    /\ [](\A i \in Insts :
            /\ frame[i].pc = "resolved" => ResolvedAfterAllStages(i)
            /\ frame[i].pc = "rejected" => RejectedAfterCompensation(i))
    /\ [][\A i \in Insts : Ended(i) => frame'[i].pc = frame[i].pc]_vars
    /\ \A i \in Insts : (runs[i] > 0) ~> Ended(i)

\* A run that retried a step, failed in its second stage, compensated the
\* first and rejected after the hook.
C17_Witness ==
    /\ frame["saga"].pc = "rejected"
    /\ frame["saga"].k = 2
    /\ \E p \in DOMAIN frame["saga"].tasks : frame["saga"].tasks[p].attempt = 2
    /\ Comps("saga") # <<>>
    /\ HookCalls("saga") # <<>>

(***************************************************************************)
(* C18: a parallel stage is decided when all its steps have settled: while *)
(* a compensate or the global hook invoked by the run is pending, no       *)
(* action of the failed stage is in flight or has attempts left.  (A       *)
(* compensate and the hook are invoked in the step that begins their       *)
(* wait, and a task of the stage never starts again, so an invocation      *)
(* made while a sibling was in flight shows in the state it leaves.)       *)
(***************************************************************************)
C18_StageAwaitsAllSteps ==
    \A i \in Insts :
        frame[i].pc \in {"comp", "hook"} =>
            \A p \in DOMAIN frame[i].tasks : frame[i].tasks[p].st # "run"

(***************************************************************************)
(* C19: when a step of a parallel stage has exhausted its retries, that    *)
(* occurrence of the stage is never recorded in the trace, no compensate   *)
(* is invoked for it, also not of a sibling whose action resolved, before  *)
(* or after the failure, the context of the run is the initial context     *)
(* overlaid with the results of the stages recorded before, and the hook   *)
(* is handed that context.                                                 *)
(***************************************************************************)
\* execute caught the failure of its current stage.
Failed(i) == frame[i].pc \in {"comp", "hook", "rejected"}

\* The steps of stage k of instance i not skipped when the run began.
ActiveAtStart(i, k) == SelectSeq(steps[i][k].ss, LAMBDA s : s \notin skipped[i])

\* ctx overlaid with the results of the stages ks, in order.
RECURSIVE MergedStages(_, _, _)
MergedStages(ctx, ks, i) ==
    IF ks = <<>> THEN ctx
    ELSE MergedStages(SequentialMerge(ctx, ActiveAtStart(i, Head(ks)), i),
                      Tail(ks), i)

\* The context accumulated from the stages the run has recorded.
Accumulated(i) ==
    MergedStages(InitialContext(i),
                 [x \in 1..Len(Pushes(i)) |-> Pushes(i)[x].tag[3]], i)

C19_FailedParallelStageLeavesNoTrace ==
    \A i \in Insts :
        (Failed(i) /\ steps[i][frame[i].k].par) =>
            LET occurrence == <<i, runs[i], frame[i].k>>
            IN  /\ \A x \in 1..Len(Pushes(i)) : Pushes(i)[x].tag # occurrence
                /\ \A x \in 1..Len(completedSteps[i]) :
                      completedSteps[i][x].tag # occurrence
                /\ \A x \in 1..Len(Comps(i)) : Comps(i)[x].tag # occurrence
                /\ context[i] = Accumulated(i)
                /\ \A x \in 1..Len(HookCalls(i)) :
                      HookCalls(i)[x].ctx = Accumulated(i)

\* A run rejected after its second stage, a parallel one, failed: one step
\* gave up, the action of its sibling resolved, the first stage was
\* compensated and the hook was invoked.
C19_Witness ==
    /\ frame["saga"].pc = "rejected"
    /\ frame["saga"].k = 2
    /\ steps["saga"][2].par
    /\ \E p, q \in DOMAIN frame["saga"].tasks :
          /\ frame["saga"].tasks[p].st = "thrown"
          /\ frame["saga"].tasks[p].attempt > 0
          /\ frame["saga"].tasks[q].st = "ok"
    /\ Len(Pushes("saga")) = 1
    /\ Comps("saga") # <<>>
    /\ HookCalls("saga") # <<>>

(***************************************************************************)
(* C20: every execute call starts with an empty trace: the trace of an     *)
(* instance holds only stages recorded by its latest execute call, and a   *)
(* later call that fails invokes compensates only for the stages it        *)
(* recorded itself, each step of a stage once, the stages in the reverse   *)
(* of the order in which they completed in that call.                      *)
(***************************************************************************)
C20_ExecuteStartsWithEmptyTrace ==
    \A i \in Insts :
        LET ps == Pushes(i)
            cs == Comps(i)
            st == CompensatedStages(i)
        IN  /\ \A x \in 1..Len(completedSteps[i]) :
                  completedSteps[i][x].tag[2] = runs[i]
            /\ \A x \in 1..Len(cs) : cs[x].tag[2] = runs[i]
            /\ Len(st) <= Len(ps)
            /\ \A j \in 1..Len(st) :
                  j <= Len(ps) => st[j] = ps[Len(ps) - j + 1].tag
            /\ \A x, y \in 1..Len(cs) :
                  (cs[x].tag = cs[y].tag /\ cs[x].s = cs[y].s) => x = y

(***************************************************************************)
(* C21: stages execute in declaration order.  When an action of stage k is *)
(* first invoked, every earlier stage with a step not skipped has been     *)
(* recorded, in order, and the context the action is handed is the initial *)
(* context overlaid with their results; once a stage has failed, no action *)
(* of a later stage has been invoked.                                      *)
(***************************************************************************)
\* The stages recorded before position x of the history of instance i.
PushedBefore(i, x) ==
    LET before == SelectSeq(SubSeq(log[i], 1, x - 1), LAMBDA e : e.ev = "push")
    IN  [y \in 1..Len(before) |-> before[y].tag[3]]

C21_StagesInDeclarationOrder ==
    \A i \in Insts :
        /\ \A x \in 1..Len(log[i]) :
              log[i][x].ev = "action" =>
                  LET k == log[i][x].tag[3]
                  IN  /\ PushedBefore(i, x) =
                            SelectSeq(StagesToRun(i), LAMBDA j : j < k)
                      /\ log[i][x].ctx =
                            MergedStages(InitialContext(i),
                                         PushedBefore(i, x), i)
        /\ Failed(i) =>
              \A x \in 1..Len(log[i]) :
                  log[i][x].ev = "action" => log[i][x].tag[3] <= frame[i].k

\* A run of three stages, the second skipped whole, that failed in the
\* third after the first was recorded.
C21_Witness ==
    /\ Len(steps["saga"]) = 3
    /\ StagesToRun("saga") = <<1, 3>>
    /\ Failed("saga")
    /\ frame["saga"].k = 3
    /\ Len(Pushes("saga")) = 1

(***************************************************************************)
(* C22: every invocation of an action of a stage, of each sibling and of   *)
(* each retry, is handed the context as it stood when the stage began: the *)
(* initial context overlaid with the results of the stages recorded before *)
(* it.  The compensate of a step is handed what the action of that step    *)
(* was handed in the stage compensated.                                    *)
(***************************************************************************)
C22_SnapshotPerStage ==
    \A i \in Insts :
        \A x \in 1..Len(log[i]) :
            /\ log[i][x].ev = "action" =>
                  /\ log[i][x].ctx =
                        MergedStages(InitialContext(i), PushedBefore(i, x), i)
                  /\ \A y \in 1..Len(log[i]) :
                        (log[i][y].ev = "action"
                            /\ log[i][y].tag = log[i][x].tag) =>
                                log[i][y].ctx = log[i][x].ctx
            /\ log[i][x].ev = "compensate" =>
                  \E y \in 1..(x - 1) :
                      /\ log[i][y].ev = "action"
                      /\ log[i][y].tag = log[i][x].tag
                      /\ log[i][y].s = log[i][x].s
                      /\ log[i][y].ctx = log[i][x].ctx

\* A run in which a step of a parallel stage was retried, a later stage
\* failed, and the steps of the parallel stage were compensated with
\* snapshots that differ from the context after the merge.
C22_Witness ==
    /\ frame["saga"].pc = "rejected"
    /\ \E x, y \in 1..Len(log["saga"]) :
          /\ log["saga"][x].ev = "action"
          /\ log["saga"][x].n = 2
          /\ log["saga"][y].ev = "compensate"
          /\ log["saga"][y].tag = log["saga"][x].tag
          /\ log["saga"][y].s = log["saga"][x].s
          /\ steps["saga"][log["saga"][x].tag[3]].par
          /\ log["saga"][y].ctx # context["saga"]

(***************************************************************************)
(* C23: reset() clears the trace, the context and the run identity and     *)
(* leaves the stage list, the skip and maxReruns of every step, the        *)
(* workflow name and the hook as they are; an execute that follows it does *)
(* what an execute of a new instance so configured does: it returns the    *)
(* initial context overlaid with the results of its stages, and when it    *)
(* fails it compensates the stages it recorded itself, each step once, in  *)
(* the reverse of the order of their completion.                           *)
(***************************************************************************)
\* The step from the state to the next is a reset() of instance i: only
\* reset() writes "" over a run identity.
IsReset(i) == runId[i] # 0 /\ runId'[i] = 0

LikeFirstRun(i) ==
    LET ps == Pushes(i)
        cs == Comps(i)
        st == CompensatedStages(i)
    IN  /\ frame[i].pc = "resolved" =>
              frame[i].returned =
                  MergedStages(InitialContext(i), StagesToRun(i), i)
        /\ \A x \in 1..Len(completedSteps[i]) :
              /\ completedSteps[i][x].tag[2] = runs[i]
              /\ \E y \in 1..Len(ps) : ps[y].tag = completedSteps[i][x].tag
        /\ Len(st) <= Len(ps)
        /\ \A j \in 1..Len(st) :
              j <= Len(ps) => st[j] = ps[Len(ps) - j + 1].tag
        /\ \A x, y \in 1..Len(cs) :
              (cs[x].tag = cs[y].tag /\ cs[x].s = cs[y].s) => x = y
        /\ (frame[i].pc = "rejected" /\ lastCompensate[i] # NoHook) =>
              /\ Len(HookCalls(i)) = 1
              /\ HookCalls(i)[1].ctx = Accumulated(i)

C23_ResetRestoresFreshInstance ==
    /\ [][\A i \in Insts :
            IsReset(i) =>
                /\ completedSteps'[i] = <<>>
                /\ context'[i] = NoCtx
                /\ steps' = steps
                /\ stepObj' = stepObj
                /\ workflowName' = workflowName
                /\ lastCompensate' = lastCompensate]_vars
    /\ [](\A i \in Insts : (runs[i] > 0 /\ ~Clean(i)) => LikeFirstRun(i))

\* A second run, after a reset of an instance whose first run had recorded
\* two stages, failed in its second stage and compensated the first.
C23_Witness ==
    /\ runs["saga"] = 2
    /\ frame["saga"].pc = "rejected"
    /\ frame["saga"].k = 2
    /\ Len(Pushes("saga")) = 1
    /\ Len(Comps("saga")) >= 1

(***************************************************************************)
(* C24: removeStep(name) leaves a stage list without a step of that name   *)
(* and without an empty stage, the other steps in their stages and in      *)
(* their order; and a run invokes the action or the compensate only of     *)
(* steps that are in the stage list of its instance, so never of a step    *)
(* removed before.                                                         *)
(***************************************************************************)
\* The stages of a list that keep a step when those named stepName go.
Surviving(stages, stepName) ==
    SelectSeq(stages,
              LAMBDA stage : \E p \in DOMAIN stage.ss :
                                 StepName(stage.ss[p]) # stepName)

RemovesEverywhere(stages, stepName) ==
    LET after == Removed(stages, stepName)
        kept  == Surviving(stages, stepName)
    IN  /\ \A s \in StepsOf(after) : StepName(s) # stepName
        /\ \A k \in DOMAIN after : after[k].ss # <<>>
        /\ Len(after) = Len(kept)
        /\ \A k \in DOMAIN after :
              /\ after[k].par = kept[k].par
              /\ after[k].ss =
                    SelectSeq(kept[k].ss, LAMBDA s : StepName(s) # stepName)

\* The invocations the step from the state to the next adds to the history.
Invoking(i) ==
    LET from == IF runs'[i] = runs[i] THEN Len(log[i]) + 1 ELSE 1
    IN  {log'[i][x] : x \in from..Len(log'[i])}

C24_RemovedStepNeverInvoked ==
    /\ [](\A i \in Insts : \A s \in Steps :
            RemovesEverywhere(steps[i], StepName(s)))
    /\ [][\A i \in Insts : \A e \in Invoking(i) :
            e.ev \in {"action", "compensate"} =>
                e.s \in StepsOf(steps'[i])]_vars

(***************************************************************************)
(* C25: a call of updateWorkflowState, deleteWorkflowState, saveStepState, *)
(* updateStepState or getStepState with a run identifier the store has no  *)
(* state for, or (updateStepState, getStepState) with a step name the run  *)
(* has no state for, is rejected with an error and leaves the store as it  *)
(* was.                                                                    *)
(***************************************************************************)
\* The repository call of the step from the state to the next targets a
\* run or a step that the store, before the call, does not have.
TargetsUnknown ==
    /\ answer'.n = answer.n + 1
    /\ answer'.op \in {"updateWorkflowState", "deleteWorkflowState",
                       "saveStepState", "updateStepState", "getStepState"}
    /\ IF workflowStates[answer'.runId] = NoState THEN TRUE
       ELSE /\ answer'.op \in {"updateStepState", "getStepState"}
            /\ \A x \in DOMAIN workflowStates[answer'.runId].steps :
                  workflowStates[answer'.runId].steps[x].stepName #
                      answer'.stepName

C25_UnknownTargetFailsLoudly ==
    [][TargetsUnknown =>
          /\ answer'.settled = "rejected"
          /\ workflowStates' = workflowStates]_vars

(***************************************************************************)
(* C26: updateWorkflow(name, saga) of a registered name replaces the       *)
(* template by a copy of the stage list of the saga handed in and leaves   *)
(* createdAt, lastExecutedAt and the history of the workflow, and every    *)
(* run in flight, as they are; a run that starts takes the stage list of   *)
(* the template of that moment; and a run, also one in flight during an    *)
(* update, records the stages of the list it started with and has its      *)
(* result in the history of the workflow when it has finished.             *)
(***************************************************************************)
\* The Saga objects of the runWorkflow calls in progress.
Running == {j \in Insts : calling[j] # NoCall}

C26_UpdateReplacesOnlyTemplate ==
    /\ [][\A name \in WorkflowNames :
            (/\ workflows[name] # NoDefinition
             /\ UpdateWorkflow(name, "saga", Replaced(name)))
            => /\ workflows'[name] # NoDefinition
               /\ steps'[workflows'[name].saga] = steps["saga"]
               /\ workflows'[name].createdAt = workflows[name].createdAt
               /\ workflows'[name].lastExecutedAt =
                     workflows[name].lastExecutedAt
               /\ workflows'[name].executionHistory =
                     workflows[name].executionHistory
               /\ \A j \in Running :
                     /\ workflows'[name].saga # j
                     /\ steps'[j] = steps[j]
                     /\ frame'[j] = frame[j]
                     /\ completedSteps'[j] = completedSteps[j]
                     /\ calling'[j] = calling[j]]_vars
    /\ [][\A j \in Insts :
            (calling[j] = NoCall /\ calling'[j] # NoCall) =>
                steps'[j] = steps[workflows[calling'[j].name].saga]]_vars
    /\ [](\A j \in Running :
            /\ \A x \in 1..Len(Pushes(j)) :
                  Pushes(j)[x].tag[3] = x /\ x <= Len(steps[j])
            /\ frame[j].pc = "resolved" => Len(Pushes(j)) = Len(steps[j]))
    /\ [](\A n \in DOMAIN finished :
            \E x \in DOMAIN GetWorkflowHistory(finished[n].name) :
                GetWorkflowHistory(finished[n].name)[x] = finished[n].result)

\* The workflow was updated while its first run was in flight: the second
\* run, started after the update, ran both stages and finished first; the
\* first run ran the one stage it started with and is recorded after it.
C26_Witness ==
    /\ Len(GetWorkflowHistory("w")) = 2
    /\ GetWorkflowHistory("w")[1].runId > GetWorkflowHistory("w")[2].runId
    /\ GetWorkflowHistory("w")[1].success
    /\ GetWorkflowHistory("w")[2].success
    /\ GetWorkflowHistory("w")[1].finalContext["b"] # Absent
    /\ GetWorkflowHistory("w")[2].finalContext["b"] = Absent
    /\ workflows["w"].createdAt < now

(***************************************************************************)
(* C27: the lastExecutedAt of a registered workflow is set exactly when a  *)
(* run of it has been recorded, and is then the latest executedAt of the   *)
(* results retained in its history: no retained result has a later one.    *)
(***************************************************************************)
C27_LastExecutedAtIsLatestStart ==
    \A name \in WorkflowNames :
        workflows[name] # NoDefinition =>
            LET definition == workflows[name]
                history == definition.executionHistory
            IN  /\ definition.lastExecutedAt # <<>> <=>
                      \E n \in DOMAIN finished : finished[n].name = name
                /\ \A x \in DOMAIN history :
                      /\ definition.lastExecutedAt # <<>>
                      /\ definition.lastExecutedAt[1] >= history[x].executedAt

(***************************************************************************)
(* C28: whatever integer setStepReruns was handed, a step that is not      *)
(* skipped and whose stage the run has reached has had its action invoked  *)
(* at least once, and what execute rejects with is an error thrown by an   *)
(* invocation of an action, never undefined.                               *)
(***************************************************************************)
C28_EveryReachedStepIsAttempted ==
    \A i \in Insts :
        /\ \A p \in DOMAIN frame[i].tasks :
              Invocations(frame[i].tasks[p]) >= 1
        /\ frame[i].pc = "rejected" =>
              /\ frame[i].thrown # Undefined
              /\ \E s \in Steps, n \in 1..(MaxReruns + 1) :
                    frame[i].thrown = Err(s, n)

(***************************************************************************)
(* C29: when a runWorkflow call ends, no name that was not registered      *)
(* becomes registered; and the history of a registration holds only        *)
(* results of runs that started after it was made: a run in flight when    *)
(* its name was removed, and perhaps registered again, leaves no entry in  *)
(* the new registration.  (Run identifiers are handed out in the order in  *)
(* which the runs start.)                                                  *)
(***************************************************************************)
C29_RemovedRunLeavesNoEntry ==
    /\ [][(\E j \in Insts : calling[j] # NoCall /\ calling'[j] = NoCall) =>
            \A name \in WorkflowNames :
                workflows[name] = NoDefinition =>
                    workflows'[name] = NoDefinition]_vars
    /\ [](\A name \in WorkflowNames :
            workflows[name] # NoDefinition =>
                \A x \in DOMAIN workflows[name].executionHistory :
                    workflows[name].executionHistory[x].runId >
                        registeredAs[name].since)

\* The name was removed and registered again while the first run was in
\* flight; the first run has ended, and the history of the new registration
\* holds the later run alone.
C29_Witness ==
    /\ workflows["w"] # NoDefinition
    /\ registeredAs["w"].since = 1
    /\ Len(finished) = 2
    /\ \E n \in DOMAIN finished : finished[n].runId = 1
    /\ Len(workflows["w"].executionHistory) = 1
    /\ workflows["w"].executionHistory[1].runId = 2

====
